---- MODULE Spec2Model ----
(***************************************************************************)
(* Model of the Helix C99 command-line demo (src/c99/app/demo.c) and of    *)
(* the contract of the closed Helix library it calls, as declared and      *)
(* documented in src/c99/include/helix_crypto.h and helix_types.h.         *)
(*                                                                         *)
(* The demo is a single thread of control; every blocking library call or  *)
(* file operation is one step (pc names the next step).  The library is    *)
(* the environment: each call returns any value of its declared type, and  *)
(* the engine completes issued promises on its own schedule.               *)
(***************************************************************************)
EXTENDS Integers, Sequences, FiniteSets, TLC

\* ---------------------------------------------------------------- bounds
MaxLen == 1
MaxByte == 1
MaxPathLen == 3

\* ------------------------------------------------------- program constants
ERROR_NONE == 0
ERROR_INPUT_NAME == 2
ERROR_INPUT_READ == 3
ERROR_INPUT_MALLOC == 5
ERROR_OUTPUT_NAME == 6
ERROR_OUTPUT_WRITE == 7
ERROR_HELIX_MODULE == 8
ERROR_HELIX_SERVER == 9
ERROR_HELIX_ACCOUNT_CREATE == 10
ERROR_HELIX_ACCOUNT_LOGIN == 11
ERROR_HELIX_ENCRYPT_RECIPIENT == 12
ERROR_HELIX_ENCRYPT_EMPTY == 13
ERROR_HELIX_DECRYPT_STATUS == 14
ERROR_HELIX_DECRYPT_EMPTY == 15
ERROR_HELIX_DECRYPT_SIZE == 16
ERROR_ARGPARSE_INVALID == 18

INVOKE_STATUS_FALSE == -1
INVOKE_STATUS_TRUE == 0

PROMISE_COMPLETE == 1
PROMISE_DATA_AVAILABLE == 4
PROMISE_RESULT_ERROR == 32
PROMISE_NO_STATUS == 8192
PROMISE_WAIT_STATUS == 16384

DEFAULT_KEY_SERVER_PORT == 5567

USER_OWNS_MEMORY == 0
HELIX_OWNS_MEMORY == 1

\* --------------------------------------------------------- library contract
\* Values a call declared to return invokeStatus_t can produce: success, or
\* a failure code (the demo tells failure codes apart nowhere).
invokeStatus_t == {INVOKE_STATUS_TRUE, INVOKE_STATUS_FALSE}

\* The three promises the demo issues, named by what they stand for.
PROMISE_ID == {"search", "encrypt", "decrypt"}

\* promiseStatusAndFlags_t is a bitset: flag f (a power of two) is set in s.
HasFlag(s, f) == (s \div f) % 2 = 1

\* Status of a promise whose work is still in progress.
PendingStatuses == {PROMISE_NO_STATUS, PROMISE_WAIT_STATUS}

\* Statuses of a promise whose work has ended: data available (alone, or
\* together with the completion flag), or completed with an error.
TerminalStatuses ==
    { PROMISE_DATA_AVAILABLE,
      PROMISE_COMPLETE + PROMISE_DATA_AVAILABLE,
      PROMISE_COMPLETE + PROMISE_RESULT_ERROR }

NotIssued == 0
IsPending(s) == s \in PendingStatuses
IsTerminal(s) == s \in TerminalStatuses

Byte == 0..MaxByte
RECURSIVE SeqsUpTo(_)
SeqsUpTo(n) ==
    IF n = 0 THEN { <<>> }
    ELSE LET shorter == SeqsUpTo(n - 1)
         IN  shorter \cup { Append(s, b) : s \in { t \in shorter : Len(t) = n - 1 }, b \in Byte }
Buffers == SeqsUpTo(MaxLen)

\* A pointer/length pair returned by the library or read from disk.
NullBuf == [ptr |-> FALSE, data |-> <<>>]
OutputBuffers == { NullBuf } \cup { [ptr |-> TRUE, data |-> d] : d \in Buffers }

VARIABLES
    pc,                \* next step of the demo
    args,              \* parsed command line: help, nErrors, encrypt, decrypt, simulated
    exitStatus,        \* <<>> while running, <<code>> once the process has ended
    calls,             \* Helix API calls made so far, in order
    accountRecord,     \* local account record kept by the library
    promiseStatus,     \* status bitset of each promise (NotIssued before its start call)
    exit_code,         \* authenticateWithHelixNetwork: exit_code
    authReturns,       \* values returned by authenticateWithHelixNetwork, in order
    recordBefore,      \* accountRecord at each entry of authenticateWithHelixNetwork
    modulePrepStatus,  \* main: <<>> before line 157, <<value>> after
    dataFromFile,      \* main: input buffer, "unallocated" | "allocated" | "freed"
    fileData,          \* bytes of dataFromFile (bytesFromFile is their count)
    encrypted,         \* main: encrypted (pointer and bytes)
    encryptedBytes,    \* main: encryptedBytes
    decrypted,         \* main: decrypted (pointer and bytes)
    decryptedBytes,    \* main: decryptedBytes
    op_failure,        \* main: op_failure
    filesWritten,      \* output files: <<>> if not written, else <<bytes written>>
    outFileEncrypted,  \* main: outFileEncrypted (<<>> before line 181)
    outFileDecrypted,  \* main: outFileDecrypted (<<>> before line 183)
    frees              \* buffers the demo has passed to free(), in order

vars == << pc, args, exitStatus, calls, accountRecord, promiseStatus, exit_code,
           authReturns, recordBefore, modulePrepStatus, dataFromFile, fileData,
           encrypted, encryptedBytes, decrypted, decryptedBytes, op_failure,
           filesWritten, outFileEncrypted, outFileDecrypted, frees >>

authVars == << exit_code, authReturns, recordBefore, modulePrepStatus >>
nameVars == << outFileEncrypted, outFileDecrypted >>
dataVars == << dataFromFile, fileData, encrypted, encryptedBytes, decrypted,
               decryptedBytes, op_failure, filesWritten, nameVars, frees >>

bytesFromFile == Len(fileData)

\* One entry of the call log: the API called, the promise it concerns
\* ("none" when it concerns none), the value returned, and the status the
\* concerned promise had when the call was made (NotIssued when none).
\* Calls whose arguments matter carry them in arg (CallWith); the others
\* carry none.
CallWith(api, id, ret, st, arg) ==
    [api |-> api, id |-> id, ret |-> ret, st |-> st, arg |-> arg]
Call(api, id, ret, st) == CallWith(api, id, ret, st, <<>>)

\* The 64-bit handle the library returns for each promise.
Handle(id) == CASE id = "search" -> 1 [] id = "encrypt" -> 2 [] id = "decrypt" -> 3

OutNames == {"encrypted", "decrypted"}

\* exit(code) and return-from-main both end the process with that status.
Terminate(code) ==
    /\ pc' = "terminated"
    /\ exitStatus' = << code >>

\* File paths are sequences of characters; "/" is the path separator.
PathChars == {"a", "b", "/"}
RECURSIVE PathsUpTo(_)
PathsUpTo(n) ==
    IF n = 0 THEN { <<>> }
    ELSE LET shorter == PathsUpTo(n - 1)
         IN  shorter \cup { Append(s, c) : s \in { t \in shorter : Len(t) = n - 1 }, c \in PathChars }

\* The command line as argtable hands it over (lines 93-111): the flags, the
\* integer given as --port, the lengths of the --server and --user strings,
\* the --input path and the --output name (<<>> when the option is absent).
ArgsOver(ports, serverLens, userLens, inFiles, outs) ==
    [ help : BOOLEAN, nErrors : 0..1, encrypt : BOOLEAN, decrypt : BOOLEAN,
      simulated : BOOLEAN, port : ports, server : serverLens, user : userLens,
      inFile : inFiles, out : outs ]

\* Command lines of the runs followed to their end: the default server
\* (17 characters) with the default port or port 0, one input file, no -o.
ArgSets ==
    ArgsOver({0, DEFAULT_KEY_SERVER_PORT}, {17}, {5}, { << "a" >> }, { <<>> })

\* The process at the entry of main, for a command line out of argSet.
InitOver(argSet) ==
    /\ pc = "parse"
    /\ args \in argSet
    /\ exitStatus = <<>>
    /\ calls = <<>>
    /\ accountRecord \in {"absent", "present"}
    /\ promiseStatus = [p \in PROMISE_ID |-> NotIssued]
    /\ exit_code = -1
    /\ authReturns = <<>>
    /\ recordBefore = <<>>
    /\ modulePrepStatus = <<>>
    /\ dataFromFile = "unallocated"
    /\ fileData = <<>>
    /\ encrypted = NullBuf
    /\ encryptedBytes = 0
    /\ decrypted = NullBuf
    /\ decryptedBytes = 0
    /\ op_failure = 0
    /\ filesWritten = [f \in OutNames |-> <<>>]
    /\ outFileEncrypted = <<>>
    /\ outFileDecrypted = <<>>
    /\ frees = <<>>

Init == InitOver(ArgSets)

\* main, lines 107-141: parse the command line.
parseArguments ==
    /\ pc = "parse"
    /\ IF args.help
         THEN Terminate(ERROR_NONE)
         ELSE IF args.nErrors > 0
                THEN Terminate(ERROR_ARGPARSE_INVALID)
                ELSE pc' = "load" /\ UNCHANGED exitStatus
    /\ UNCHANGED << args, calls, accountRecord, promiseStatus, authVars, dataVars >>

\* Conversion of an int to uint16_t (main line 139).
ToUint16(n) == n % 65536

\* main line 139: the port handed to loadHelixModule.
server_port == ToUint16(args.port)

\* The three assertions of loadHelixModule (lines 388-390).
LoadAssertionsHold ==
    /\ args.server > 0 /\ args.server < 128
    /\ server_port > 0 /\ server_port < 65535
    /\ args.user > 0

\* loadHelixModule: check the arguments (a failed assertion aborts the
\* process, which the shell reports as 128 + SIGABRT), then start the module
\* with the real or a simulated device.
loadHelixModule ==
    /\ pc = "load"
    /\ IF ~LoadAssertionsHold
         THEN Terminate(134) /\ UNCHANGED calls
         ELSE \E loadStatus \in invokeStatus_t :
                /\ calls' = Append(calls,
                       CallWith(IF args.simulated THEN "apiStartup_Advanced" ELSE "apiStartup",
                                "none", loadStatus, NotIssued, << args.server, server_port >>))
                /\ IF INVOKE_STATUS_TRUE # loadStatus
                     THEN Terminate(ERROR_HELIX_MODULE)
                     ELSE pc' = "connect" /\ UNCHANGED exitStatus
    /\ UNCHANGED << args, accountRecord, promiseStatus, authVars, dataVars >>

\* connectToHelixKeyServer and main's check of its result (lines 149-153).
connectToHelixKeyServer ==
    /\ pc = "connect"
    /\ \E serverConnectionStatus \in invokeStatus_t :
         /\ calls' = Append(calls, Call("serverConnect", "none", serverConnectionStatus, NotIssued))
         /\ IF INVOKE_STATUS_TRUE # serverConnectionStatus
              THEN Terminate(ERROR_HELIX_SERVER) /\ UNCHANGED recordBefore
              ELSE /\ pc' = "auth_login"
                   /\ recordBefore' = Append(recordBefore, accountRecord)
                   /\ UNCHANGED exitStatus
    /\ UNCHANGED << args, accountRecord, promiseStatus, exit_code, authReturns,
                    modulePrepStatus, dataVars >>

\* ------------------------------------------------------------ account API
\* blakfx_helix_accountLogin logs in to an existing account: it can succeed
\* only when the local account record exists.
LoginOutcomes(record) ==
    IF record = "present" THEN invokeStatus_t ELSE invokeStatus_t \ {INVOKE_STATUS_TRUE}

\* blakfx_helix_accountDelete deletes the local account when it succeeds.
RecordAfterDelete(record, ret) ==
    IF ret = INVOKE_STATUS_TRUE THEN "absent" ELSE record

\* blakfx_helix_accountCreate creates the account when it succeeds.
RecordAfterCreate(record, ret) ==
    IF ret = INVOKE_STATUS_TRUE THEN "present" ELSE record

\* accountLogin / accountCreate / accountDelete of the demo: true exactly
\* when the library call returned 0.
accountLogin(loginResult) == ~(loginResult # 0)
accountCreate(createResult) == ~(createResult # 0)
accountDelete(deleteResult) == ~(deleteResult # 0)

\* authenticateWithHelixNetwork, lines 448-453 and 475-478: first login.
authLogin ==
    /\ pc = "auth_login"
    /\ \E ret \in LoginOutcomes(accountRecord) :
         /\ calls' = Append(calls, Call("accountLogin", "none", ret, NotIssued))
         /\ IF ~accountLogin(ret)
              THEN pc' = "auth_delete" /\ exit_code' = -1
              ELSE pc' = "auth_ret" /\ exit_code' = 0
    /\ UNCHANGED << args, exitStatus, accountRecord, promiseStatus, authReturns,
                    recordBefore, modulePrepStatus, dataVars >>

\* Bug variant of authDelete: a failed delete is not ignored but ends the
\* authentication with the exit code as it stands.
authDelete_abortOnFailure ==
    /\ pc = "auth_delete"
    /\ \E ret \in invokeStatus_t :
         /\ calls' = Append(calls, Call("accountDelete", "none", ret, NotIssued))
         /\ accountRecord' = RecordAfterDelete(accountRecord, ret)
         /\ pc' = IF accountDelete(ret) THEN "auth_create" ELSE "auth_ret"
    /\ UNCHANGED << args, exitStatus, promiseStatus, authVars, dataVars >>

\* authenticateWithHelixNetwork, line 455: delete, result ignored.
authDelete ==
    /\ pc = "auth_delete"
    /\ \E ret \in invokeStatus_t :
         /\ calls' = Append(calls, Call("accountDelete", "none", ret, NotIssued))
         /\ accountRecord' = RecordAfterDelete(accountRecord, ret)
         /\ pc' = "auth_create"
    /\ UNCHANGED << args, exitStatus, promiseStatus, authVars, dataVars >>

\* Bug variant of authCreate: the login is attempted even though the create
\* failed.
authCreate_loginAfterFailure ==
    /\ pc = "auth_create"
    /\ \E ret \in invokeStatus_t :
         /\ calls' = Append(calls, Call("accountCreate", "none", ret, NotIssued))
         /\ accountRecord' = RecordAfterCreate(accountRecord, ret)
         /\ exit_code' = IF ~accountCreate(ret) THEN -30 ELSE exit_code
         /\ pc' = "auth_relogin"
    /\ UNCHANGED << args, exitStatus, promiseStatus, authReturns, recordBefore,
                    modulePrepStatus, dataVars >>

\* authenticateWithHelixNetwork, lines 458-462: create.
authCreate ==
    /\ pc = "auth_create"
    /\ \E ret \in invokeStatus_t :
         /\ calls' = Append(calls, Call("accountCreate", "none", ret, NotIssued))
         /\ accountRecord' = RecordAfterCreate(accountRecord, ret)
         /\ IF ~accountCreate(ret)
              THEN pc' = "auth_ret" /\ exit_code' = -30
              ELSE pc' = "auth_relogin" /\ UNCHANGED exit_code
    /\ UNCHANGED << args, exitStatus, promiseStatus, authReturns, recordBefore,
                    modulePrepStatus, dataVars >>

\* authenticateWithHelixNetwork, lines 465-473: login to the new account.
authRelogin ==
    /\ pc = "auth_relogin"
    /\ \E ret \in LoginOutcomes(accountRecord) :
         /\ calls' = Append(calls, Call("accountLogin", "none", ret, NotIssued))
         /\ exit_code' = IF ~accountLogin(ret) THEN -40 ELSE 0
         /\ pc' = "auth_ret"
    /\ UNCHANGED << args, exitStatus, accountRecord, promiseStatus, authReturns,
                    recordBefore, modulePrepStatus, dataVars >>

\* Bug variant of mainAfterAuthenticate: the result of the authentication
\* is stored but not tested.
mainAfterAuthenticate_unchecked ==
    /\ pc = "auth_ret"
    /\ authReturns' = Append(authReturns, exit_code)
    /\ modulePrepStatus' = << exit_code >>
    /\ pc' = "paths"
    /\ UNCHANGED << args, exitStatus, calls, accountRecord, promiseStatus, exit_code,
                    recordBefore, dataVars >>

\* main, lines 157-161: take the result of the authentication.
mainAfterAuthenticate ==
    /\ pc = "auth_ret"
    /\ authReturns' = Append(authReturns, exit_code)
    /\ modulePrepStatus' = << exit_code >>
    /\ IF 0 # exit_code
         THEN Terminate(-1)
         ELSE pc' = "paths" /\ UNCHANGED exitStatus
    /\ UNCHANGED << args, calls, accountRecord, promiseStatus, exit_code,
                    recordBefore, dataVars >>

\* strrchr(path, '/'): position of the last separator, 0 when there is none.
LastSeparator(path) ==
    LET at == { i \in 1..Len(path) : path[i] = "/" }
    IN  IF at = {} THEN 0 ELSE CHOOSE i \in at : \A j \in at : j <= i

\* main, lines 170-173: fileBase points at the last separator, or at the
\* start of inFile when there is none (positions count from 1).
fileBase(inFile) == IF LastSeparator(inFile) # 0 THEN LastSeparator(inFile) ELSE 1

\* main, line 174: the -o value, or what follows the character at fileBase.
outFile(inFile, out) ==
    IF out # <<>> THEN out[1] ELSE SubSeq(inFile, fileBase(inFile) + 1, Len(inFile))

\* main, lines 165-184: build the two output paths.
prepareOutputPaths ==
    /\ pc = "paths"
    /\ outFileEncrypted' = outFile(args.inFile, args.out) \o << "-encrypted" >>
    /\ outFileDecrypted' = outFile(args.inFile, args.out) \o << "-decrypted" >>
    /\ pc' = "read"
    /\ UNCHANGED << args, exitStatus, calls, accountRecord, promiseStatus, authVars,
                    dataFromFile, fileData, encrypted, encryptedBytes, decrypted,
                    decryptedBytes, op_failure, filesWritten, frees >>

\* main, lines 200 and 211: what follows the encryption step.
AfterEncrypt(opf) == IF opf = 0 /\ args.decrypt THEN "dec_start" ELSE "free"

\* readBytesFromFile (main line 188): read the whole input file, or exit.
readBytesFromFile ==
    /\ pc = "read"
    /\ \E outcome \in {"ok", "fopen", "calloc", "fread", "ferror"} :
         CASE outcome = "fopen"  -> Terminate(ERROR_INPUT_NAME) /\ UNCHANGED << dataFromFile, fileData >>
           [] outcome = "calloc" -> Terminate(ERROR_INPUT_MALLOC) /\ UNCHANGED << dataFromFile, fileData >>
           [] outcome = "fread"  -> Terminate(ERROR_INPUT_READ) /\ UNCHANGED << dataFromFile, fileData >>
           [] outcome = "ferror" -> Terminate(ERROR_INPUT_READ) /\ UNCHANGED << dataFromFile, fileData >>
           [] outcome = "ok"     ->
                /\ \E content \in Buffers : fileData' = content
                /\ dataFromFile' = "allocated"
                /\ pc' = IF args.encrypt THEN "enc_search" ELSE AfterEncrypt(op_failure)
                /\ UNCHANGED exitStatus
    /\ UNCHANGED << args, calls, accountRecord, promiseStatus, authVars, encrypted,
                    encryptedBytes, decrypted, decryptedBytes, op_failure, filesWritten,
                    nameVars, frees >>

\* writeBytesToFile: write count bytes of content to the named file, or exit.
\* Gives the new value of filesWritten; the caller decides where to go on.
writeBytesToFile(name, content, count, outcome) ==
    CASE outcome = "fopen"  -> Terminate(ERROR_OUTPUT_NAME) /\ UNCHANGED filesWritten
      [] outcome = "fwrite" -> Terminate(ERROR_OUTPUT_WRITE) /\ UNCHANGED filesWritten
      [] outcome = "ok"     ->
           /\ filesWritten' = [filesWritten EXCEPT ![name] = << SubSeq(content, 1, count) >>]
           /\ UNCHANGED exitStatus

\* A short write can only happen when there is something to write.
WriteOutcomes(count) == IF count > 0 THEN {"ok", "fopen", "fwrite"} ELSE {"ok", "fopen"}

\* The engine finishes the work behind a pending promise, on its own schedule.
EngineComplete(p) ==
    /\ pc # "terminated"
    /\ IsPending(promiseStatus[p])
    /\ \E st \in TerminalStatuses : promiseStatus' = [promiseStatus EXCEPT ![p] = st]
    /\ UNCHANGED << pc, args, exitStatus, calls, accountRecord, authVars, dataVars >>

\* encryptFromBytes, lines 500-502: start the search for the recipient.
encSearch ==
    /\ pc = "enc_search"
    /\ \E st \in PendingStatuses :
         promiseStatus' = [promiseStatus EXCEPT !["search"] = st]
    /\ calls' = Append(calls, Call("simpleSearchForRecipientByName", "search",
                                   Handle("search"), NotIssued))
    /\ pc' = "enc_search_status"
    /\ UNCHANGED << args, exitStatus, accountRecord, authVars, dataVars >>

\* Bug variant of StatusAccepted: no test at all, any status is accepted.
StatusAccepted_any(st) == TRUE

\* Bug variant of StatusAccepted: the completion flag is tested instead of
\* the data-available flag.
StatusAccepted_completeFlag(st) == HasFlag(st, PROMISE_COMPLETE)

\* The demo's test of a status value: it goes on only when the value is
\* PROMISE_DATA_AVAILABLE itself (lines 504, 520 and 571).
StatusAccepted(st) == ~(PROMISE_DATA_AVAILABLE # st)

\* encryptFromBytes, lines 503-507: read the status of the search promise.
encSearchStatus ==
    /\ pc = "enc_search_status"
    /\ LET foundRecipient == promiseStatus["search"] IN
         /\ calls' = Append(calls, Call("waitEventStatus", "search", foundRecipient, foundRecipient))
         /\ IF ~StatusAccepted(foundRecipient)
              THEN Terminate(ERROR_HELIX_ENCRYPT_RECIPIENT)
              ELSE pc' = "enc_start" /\ UNCHANGED exitStatus
    /\ UNCHANGED << args, accountRecord, promiseStatus, authVars, dataVars >>

\* encryptFromBytes, line 511: start the encryption (HELIX_OWNS_MEMORY).
encStart ==
    /\ pc = "enc_start"
    /\ \E st \in PendingStatuses :
         promiseStatus' = [promiseStatus EXCEPT !["encrypt"] = st]
    /\ calls' = Append(calls, CallWith("encryptStart", "encrypt", Handle("encrypt"),
                                       promiseStatus["search"],
                                       SubSeq(fileData, 1, bytesFromFile)))
    /\ pc' = "enc_wait"
    /\ UNCHANGED << args, exitStatus, accountRecord, authVars, dataVars >>

\* Bug variant of encWait: the wait is made on the handle of the decrypt
\* promise, which has not been issued yet.
encWait_wrongPromise ==
    /\ pc = "enc_wait"
    /\ IsTerminal(promiseStatus["decrypt"])
    /\ calls' = Append(calls, Call("waitEvent", "decrypt", INVOKE_STATUS_TRUE,
                                   promiseStatus["decrypt"]))
    /\ pc' = "enc_status"
    /\ UNCHANGED << args, exitStatus, accountRecord, promiseStatus, authVars, dataVars >>

\* encryptFromBytes, line 514: waitEvent with PROMISE_INFINITE returns once
\* the promise is terminal; its result is only printed.
encWait ==
    /\ pc = "enc_wait"
    /\ IsTerminal(promiseStatus["encrypt"])
    /\ calls' = Append(calls, Call("waitEvent", "encrypt", INVOKE_STATUS_TRUE,
                                   promiseStatus["encrypt"]))
    /\ pc' = "enc_status"
    /\ UNCHANGED << args, exitStatus, accountRecord, promiseStatus, authVars, dataVars >>

\* encryptFromBytes, lines 518-523: read the status of the encrypt promise.
encStatus ==
    /\ pc = "enc_status"
    /\ LET foundValidEncryptedData == promiseStatus["encrypt"] IN
         /\ calls' = Append(calls, Call("waitEventStatus", "encrypt",
                                        foundValidEncryptedData, foundValidEncryptedData))
         /\ IF ~StatusAccepted(foundValidEncryptedData)
              THEN Terminate(ERROR_HELIX_ENCRYPT_EMPTY)
              ELSE pc' = "enc_get" /\ UNCHANGED exitStatus
    /\ UNCHANGED << args, accountRecord, promiseStatus, authVars, dataVars >>

\* The get-output calls report success exactly when they hand out a buffer.
RetrievalStatus(result) == IF result.ptr THEN INVOKE_STATUS_TRUE ELSE INVOKE_STATUS_FALSE

\* *outBytes as set by lines 495 and 528-531 (likewise 556 and 578-581).
OutBytes(result) == IF result.ptr /\ Len(result.data) > 0 THEN Len(result.data) ELSE 0

\* encryptFromBytes, lines 526-542: fetch the engine-owned result; no
\* conclude call follows.
encGetOutput ==
    /\ pc = "enc_get"
    /\ \E result \in OutputBuffers :
         /\ calls' = Append(calls, CallWith("encryptGetOutputData", "encrypt",
                                            RetrievalStatus(result), promiseStatus["encrypt"],
                                            result.data))
         /\ encrypted' = result
         /\ encryptedBytes' = OutBytes(result)
    /\ pc' = "enc_write"
    /\ UNCHANGED << args, exitStatus, accountRecord, promiseStatus, authVars, dataFromFile,
                    fileData, decrypted, decryptedBytes, op_failure, filesWritten, nameVars,
                    frees >>

\* main, lines 203-205: write the encrypted bytes.
writeEncrypted ==
    /\ pc = "enc_write"
    /\ \E outcome \in WriteOutcomes(encryptedBytes) :
         /\ writeBytesToFile("encrypted", encrypted.data, encryptedBytes, outcome)
         /\ IF outcome = "ok" THEN pc' = AfterEncrypt(op_failure) ELSE TRUE
    /\ UNCHANGED << args, calls, accountRecord, promiseStatus, authVars, dataFromFile,
                    fileData, encrypted, encryptedBytes, decrypted, decryptedBytes,
                    op_failure, nameVars, frees >>

\* Bitwise or of two non-negative integers (op_failure |= code).
RECURSIVE BitOr(_, _)
BitOr(a, b) ==
    IF a = 0 THEN b
    ELSE IF b = 0 THEN a
    ELSE (IF a % 2 = 1 \/ b % 2 = 1 THEN 1 ELSE 0) + 2 * BitOr(a \div 2, b \div 2)

\* main, lines 212-217: the blob handed to decryptFromBytes and its length.
DecryptBlob == IF ~args.encrypt THEN fileData ELSE encrypted.data
DecryptLen == IF ~args.encrypt THEN bytesFromFile ELSE encryptedBytes

\* Bug variant of decStart: the blob is freed as soon as the start call has
\* returned, while the decryption is still running.
decStart_freeBlob ==
    /\ pc = "dec_start"
    /\ \E st \in PendingStatuses :
         promiseStatus' = [promiseStatus EXCEPT !["decrypt"] = st]
    /\ calls' = Append(calls, CallWith("decryptStart", "decrypt", Handle("decrypt"),
                                       NotIssued, SubSeq(DecryptBlob, 1, DecryptLen)))
    /\ frees' = Append(frees, IF ~args.encrypt THEN "dataFromFile" ELSE "encrypted")
    /\ dataFromFile' = IF ~args.encrypt THEN "freed" ELSE dataFromFile
    /\ pc' = "dec_wait"
    /\ UNCHANGED << args, exitStatus, accountRecord, authVars, fileData, encrypted,
                    encryptedBytes, decrypted, decryptedBytes, op_failure, filesWritten,
                    nameVars >>

\* decryptFromBytes, line 562: start the decryption (USER_OWNS_MEMORY).
decStart ==
    /\ pc = "dec_start"
    /\ \E st \in PendingStatuses :
         promiseStatus' = [promiseStatus EXCEPT !["decrypt"] = st]
    /\ calls' = Append(calls, CallWith("decryptStart", "decrypt", Handle("decrypt"),
                                       NotIssued, SubSeq(DecryptBlob, 1, DecryptLen)))
    /\ pc' = "dec_wait"
    /\ UNCHANGED << args, exitStatus, accountRecord, authVars, dataVars >>

\* decryptFromBytes, line 565: waitEvent with PROMISE_INFINITE.
decWait ==
    /\ pc = "dec_wait"
    /\ IsTerminal(promiseStatus["decrypt"])
    /\ calls' = Append(calls, Call("waitEvent", "decrypt", INVOKE_STATUS_TRUE,
                                   promiseStatus["decrypt"]))
    /\ pc' = "dec_status"
    /\ UNCHANGED << args, exitStatus, accountRecord, promiseStatus, authVars, dataVars >>

\* decryptFromBytes, lines 570-574: read the status of the decrypt promise.
decStatus ==
    /\ pc = "dec_status"
    /\ LET foundValidDecryptedData == promiseStatus["decrypt"] IN
         /\ calls' = Append(calls, Call("waitEventStatus", "decrypt",
                                        foundValidDecryptedData, foundValidDecryptedData))
         /\ IF ~StatusAccepted(foundValidDecryptedData)
              THEN Terminate(ERROR_HELIX_DECRYPT_STATUS)
              ELSE pc' = "dec_get" /\ UNCHANGED exitStatus
    /\ UNCHANGED << args, accountRecord, promiseStatus, authVars, dataVars >>

\* The blob the decryption was started on.
BlobOfDecrypt ==
    LET i == CHOOSE i \in 1..Len(calls) : calls[i].api = "decryptStart" IN calls[i].arg

\* The plaintexts whose encryption, in this session, returned blob.
PlaintextsOf(blob) ==
    { calls[i].arg : i \in { k \in 1..Len(calls) :
          /\ calls[k].api = "encryptStart"
          /\ \E g \in (k + 1)..Len(calls) :
                 calls[g].api = "encryptGetOutputData" /\ calls[g].arg = blob } }

\* What the engine can hand out for a decryption whose promise has data
\* available: nothing for an empty blob; for a blob that an encryption of
\* this session returned, the plaintext of that encryption (or no buffer,
\* when the retrieval fails); anything for a blob of unknown origin.
DecryptOutputs(blob) ==
    IF blob = <<>>
      THEN { r \in OutputBuffers : r.data = <<>> }
      ELSE IF PlaintextsOf(blob) # {}
             THEN { NullBuf } \cup { [ptr |-> TRUE, data |-> p] : p \in PlaintextsOf(blob) }
             ELSE OutputBuffers

\* decryptFromBytes, lines 576-583: fetch the decrypted result.
decGetOutput ==
    /\ pc = "dec_get"
    /\ \E result \in DecryptOutputs(BlobOfDecrypt) :
         /\ calls' = Append(calls, CallWith("decryptGetOutputData", "decrypt",
                                            RetrievalStatus(result), promiseStatus["decrypt"],
                                            result.data))
         /\ decrypted' = result
         /\ decryptedBytes' = OutBytes(result)
    /\ pc' = "dec_write"
    /\ UNCHANGED << args, exitStatus, accountRecord, promiseStatus, authVars, dataFromFile,
                    fileData, encrypted, encryptedBytes, op_failure, filesWritten,
                    nameVars, frees >>

\* Bug variant of writeDecrypted: a size mismatch ends the process at once,
\* before the decrypted bytes are written.
writeDecrypted_exitOnMismatch ==
    /\ pc = "dec_write"
    /\ IF args.encrypt /\ decryptedBytes # bytesFromFile
         THEN Terminate(ERROR_HELIX_DECRYPT_SIZE) /\ UNCHANGED filesWritten
         ELSE \E outcome \in WriteOutcomes(decryptedBytes) :
                /\ writeBytesToFile("decrypted", decrypted.data, decryptedBytes, outcome)
                /\ IF outcome = "ok" THEN pc' = "free" ELSE TRUE
    /\ UNCHANGED << args, calls, accountRecord, promiseStatus, authVars, dataFromFile,
                    fileData, encrypted, encryptedBytes, decrypted, decryptedBytes,
                    op_failure, nameVars, frees >>

\* Bug variant of writeDecrypted: the size of the decrypted data is not
\* compared with the size of the file that was encrypted.
writeDecrypted_noSizeCheck ==
    /\ pc = "dec_write"
    /\ \E outcome \in WriteOutcomes(decryptedBytes) :
         /\ writeBytesToFile("decrypted", decrypted.data, decryptedBytes, outcome)
         /\ IF outcome = "ok" THEN pc' = "free" ELSE TRUE
    /\ UNCHANGED << args, calls, accountRecord, promiseStatus, authVars, dataFromFile,
                    fileData, encrypted, encryptedBytes, decrypted, decryptedBytes,
                    op_failure, nameVars, frees >>

\* main, lines 218-228: compare the sizes when the blob came from the
\* encryption, then write the decrypted bytes.
writeDecrypted ==
    /\ pc = "dec_write"
    /\ op_failure' = IF args.encrypt /\ decryptedBytes # bytesFromFile
                       THEN BitOr(op_failure, ERROR_HELIX_DECRYPT_SIZE)
                       ELSE op_failure
    /\ \E outcome \in WriteOutcomes(decryptedBytes) :
         /\ writeBytesToFile("decrypted", decrypted.data, decryptedBytes, outcome)
         /\ IF outcome = "ok" THEN pc' = "free" ELSE TRUE
    /\ UNCHANGED << args, calls, accountRecord, promiseStatus, authVars, dataFromFile,
                    fileData, encrypted, encryptedBytes, decrypted, decryptedBytes,
                    nameVars, frees >>

\* Bug variant of freeDataFromFile: the two result buffers are freed as
\* well (the calls commented out at lines 234-235).
freeDataFromFile_freeAll ==
    /\ pc = "free"
    /\ dataFromFile' = "freed"
    /\ frees' = frees \o << "encrypted", "decrypted", "dataFromFile" >>
    /\ pc' = "disconnect"
    /\ UNCHANGED << args, exitStatus, calls, accountRecord, promiseStatus, authVars,
                    fileData, encrypted, encryptedBytes, decrypted, decryptedBytes,
                    op_failure, filesWritten, nameVars >>

\* Bug variant of freeDataFromFile: the disconnect that follows is left out.
freeDataFromFile_noDisconnect ==
    /\ pc = "free"
    /\ dataFromFile' = "freed"
    /\ frees' = Append(frees, "dataFromFile")
    /\ pc' = "shutdown"
    /\ UNCHANGED << args, exitStatus, calls, accountRecord, promiseStatus, authVars,
                    fileData, encrypted, encryptedBytes, decrypted, decryptedBytes,
                    op_failure, filesWritten, nameVars >>

\* main, line 237: free the input buffer.
freeDataFromFile ==
    /\ pc = "free"
    /\ dataFromFile' = "freed"
    /\ frees' = Append(frees, "dataFromFile")
    /\ pc' = "disconnect"
    /\ UNCHANGED << args, exitStatus, calls, accountRecord, promiseStatus, authVars,
                    fileData, encrypted, encryptedBytes, decrypted, decryptedBytes,
                    op_failure, filesWritten, nameVars >>

\* disconnectFromHelixKeyServer (main line 240); the result is dropped.
disconnectFromHelixKeyServer ==
    /\ pc = "disconnect"
    /\ \E ret \in invokeStatus_t :
         calls' = Append(calls, Call("serverDisconnect", "none", ret, NotIssued))
    /\ pc' = "shutdown"
    /\ UNCHANGED << args, exitStatus, accountRecord, promiseStatus, authVars, dataVars >>

\* unloadHelixModule (main line 243), then main returns op_failure (line 248).
unloadHelixModule ==
    /\ pc = "shutdown"
    /\ calls' = Append(calls, Call("apiShutdown", "none", 0, NotIssued))
    /\ Terminate(op_failure)
    /\ UNCHANGED << args, accountRecord, promiseStatus, authVars, dataVars >>

Next ==
    \/ parseArguments
    \/ loadHelixModule
    \/ connectToHelixKeyServer
    \/ authLogin
    \/ authDelete
    \/ authCreate
    \/ authRelogin
    \/ mainAfterAuthenticate
    \/ prepareOutputPaths
    \/ readBytesFromFile
    \/ encSearch
    \/ encSearchStatus
    \/ encStart
    \/ encWait
    \/ encStatus
    \/ encGetOutput
    \/ writeEncrypted
    \/ decStart
    \/ decWait
    \/ decStatus
    \/ decGetOutput
    \/ writeDecrypted
    \/ freeDataFromFile
    \/ disconnectFromHelixKeyServer
    \/ unloadHelixModule
    \/ \E p \in PROMISE_ID : EngineComplete(p)

Spec == Init /\ [][Next]_vars

\* The steps of the demo itself: every library call and file operation
\* returns, so the demo always takes its next step.
DemoStep ==
    \/ parseArguments \/ loadHelixModule \/ connectToHelixKeyServer
    \/ authLogin \/ authDelete \/ authCreate \/ authRelogin \/ mainAfterAuthenticate
    \/ prepareOutputPaths \/ readBytesFromFile
    \/ encSearch \/ encSearchStatus \/ encStart \/ encWait \/ encStatus \/ encGetOutput
    \/ writeEncrypted
    \/ decStart \/ decWait \/ decStatus \/ decGetOutput \/ writeDecrypted
    \/ freeDataFromFile \/ disconnectFromHelixKeyServer \/ unloadHelixModule

\* The engine brings every issued encrypt and decrypt promise to a terminal
\* status; nothing is assumed of the search promise.
LiveSpec ==
    /\ Spec
    /\ WF_vars(DemoStep)
    /\ WF_vars(EngineComplete("encrypt"))
    /\ WF_vars(EngineComplete("decrypt"))

\* ---------------------------------------------------------------------
\* authenticateWithHelixNetwork called twice in a row by a caller that has
\* started the module and connected (the calls of main lines 145-157, with
\* line 157 repeated).
InitAuthTwice ==
    /\ pc = "auth_login"
    /\ args \in { a \in ArgSets : ~a.help /\ a.nErrors = 0 /\ a.port = DEFAULT_KEY_SERVER_PORT }
    /\ exitStatus = <<>>
    /\ calls = <<>>
    /\ accountRecord \in {"absent", "present"}
    /\ promiseStatus = [p \in PROMISE_ID |-> NotIssued]
    /\ exit_code = -1
    /\ authReturns = <<>>
    /\ recordBefore = << accountRecord >>
    /\ modulePrepStatus = <<>>
    /\ dataFromFile = "unallocated"
    /\ fileData = <<>>
    /\ encrypted = NullBuf
    /\ encryptedBytes = 0
    /\ decrypted = NullBuf
    /\ decryptedBytes = 0
    /\ op_failure = 0
    /\ filesWritten = [f \in OutNames |-> <<>>]
    /\ outFileEncrypted = <<>>
    /\ outFileDecrypted = <<>>
    /\ frees = <<>>

\* The first call has returned: keep its result and call again.
authenticateAgain ==
    /\ pc = "auth_ret"
    /\ Len(authReturns) = 0
    /\ authReturns' = Append(authReturns, exit_code)
    /\ recordBefore' = Append(recordBefore, accountRecord)
    /\ pc' = "auth_login"
    /\ UNCHANGED << args, exitStatus, calls, accountRecord, promiseStatus, exit_code,
                    modulePrepStatus, dataVars >>

\* The second call has returned: keep its result.
authenticateTwiceDone ==
    /\ pc = "auth_ret"
    /\ Len(authReturns) = 1
    /\ authReturns' = Append(authReturns, exit_code)
    /\ pc' = "called_twice"
    /\ UNCHANGED << args, exitStatus, calls, accountRecord, promiseStatus, exit_code,
                    recordBefore, modulePrepStatus, dataVars >>

NextAuthTwice ==
    \/ authLogin
    \/ authDelete
    \/ authCreate
    \/ authRelogin
    \/ authenticateAgain
    \/ authenticateTwiceDone

SpecAuthTwice == InitAuthTwice /\ [][NextAuthTwice]_vars

\* Every library call returns, so the caller always takes its next step.
LiveSpecAuthTwice == SpecAuthTwice /\ WF_vars(NextAuthTwice)

\* ---------------------------------------------------------------------
\* The start of the demo over a range of command lines: integers given as
\* --port inside and outside 16 bits, server names and user names of
\* critical lengths.
PortInputs == {-65535, -1, 0, 1, DEFAULT_KEY_SERVER_PORT, 65534, 65535, 65536, 65537}
InitStartup ==
    InitOver(ArgsOver(PortInputs, {0, 1, 127, 128}, {0, 5}, { << "a" >> }, { <<>> }))

NextStartup ==
    \/ parseArguments
    \/ loadHelixModule

SpecStartup == InitStartup /\ [][NextStartup]_vars

\* ---------------------------------------------------------------------
\* The demo up to the point where the output paths are built, over all
\* non-empty input paths of up to MaxPathLen characters, with and without -o.
InitNaming ==
    InitOver({ a \in ArgsOver({DEFAULT_KEY_SERVER_PORT}, {17}, {5},
                              PathsUpTo(MaxPathLen) \ { <<>> },
                              { <<>>, << << "o" >> >> }) :
                 ~a.help /\ a.nErrors = 0 /\ a.encrypt /\ a.decrypt /\ ~a.simulated })

NextNaming ==
    \/ parseArguments
    \/ loadHelixModule
    \/ connectToHelixKeyServer
    \/ authLogin
    \/ authDelete
    \/ authCreate
    \/ authRelogin
    \/ mainAfterAuthenticate
    \/ prepareOutputPaths

SpecNaming == InitNaming /\ [][NextNaming]_vars

\* ======================================================================
\* Properties
\* ======================================================================
CallsOf(api) == SelectSeq(calls, LAMBDA c : c.api = api)
Called(api) == \E i \in 1..Len(calls) : calls[i].api = api
Succeeded(api) == \E i \in 1..Len(calls) : calls[i].api = api /\ calls[i].ret = INVOKE_STATUS_TRUE
ApiSeq == [i \in 1..Len(calls) |-> calls[i].api]
IsPrefix(s, t) == Len(s) <= Len(t) /\ \A i \in 1..Len(s) : s[i] = t[i]

FirstLoginOk == Len(CallsOf("accountLogin")) >= 1 /\ CallsOf("accountLogin")[1].ret = 0
FirstLoginFailed == Len(CallsOf("accountLogin")) >= 1 /\ CallsOf("accountLogin")[1].ret # 0
SecondLoginOk == Len(CallsOf("accountLogin")) >= 2 /\ CallsOf("accountLogin")[2].ret = 0
SecondLoginFailed == Len(CallsOf("accountLogin")) >= 2 /\ CallsOf("accountLogin")[2].ret # 0
CreateOk == Len(CallsOf("accountCreate")) >= 1 /\ CallsOf("accountCreate")[1].ret = 0
CreateFailed == Len(CallsOf("accountCreate")) >= 1 /\ CallsOf("accountCreate")[1].ret # 0

\* C1: the value authenticateWithHelixNetwork returns is 0 exactly when the
\* first login succeeds or the first login fails and create and the second
\* login succeed; -30 exactly when the first login and the create fail; -40
\* exactly when the first login fails, create succeeds and the second login
\* fails.  The outcome of the delete plays no part, and -1 is never returned.
C1_AuthReturnValue ==
    authReturns # <<>> =>
        LET r == authReturns[1] IN
          /\ (r = 0) <=> (FirstLoginOk \/ (FirstLoginFailed /\ CreateOk /\ SecondLoginOk))
          /\ (r = -30) <=> (FirstLoginFailed /\ CreateFailed)
          /\ (r = -40) <=> (FirstLoginFailed /\ CreateOk /\ SecondLoginFailed)
          /\ r # -1
          /\ r \in {0, -30, -40}

\* C1 witness: the retry path ended in success although the delete failed.
C1_Witness ==
    /\ authReturns = << 0 >>
    /\ FirstLoginFailed /\ CreateOk /\ SecondLoginOk
    /\ \E i \in 1..Len(calls) : calls[i].api = "accountDelete" /\ calls[i].ret # 0

AuthCallOrder == << "accountLogin", "accountDelete", "accountCreate", "accountLogin" >>

\* The calls of the first authentication follow login, delete, create,
\* login: at most two logins, one delete, one create; nothing after a first
\* login that succeeded; no second login after a create that failed.
FirstAuthCallsBounded ==
    Len(authReturns) = 0 =>
        /\ IsPrefix(ApiSeq, AuthCallOrder)
        /\ FirstLoginOk => Len(calls) = 1
        /\ CreateFailed => Len(calls) = 3

\* C2: one call of authenticateWithHelixNetwork always terminates, and it
\* issues its calls in the order login, delete, create, login, with at most
\* two logins, one delete and one create; no delete or create after a first
\* login that succeeded, and no second login after a create that failed.
C2_BoundedRetry ==
    /\ [] FirstAuthCallsBounded
    /\ (pc = "auth_login") ~> (pc = "auth_ret")

\* C2 witness: a first call that went through all four library calls.
C2_Witness ==
    /\ pc = "auth_ret"
    /\ Len(authReturns) = 0
    /\ ApiSeq = AuthCallOrder

\* Every login and every create of the run failed.
LoginAndCreateAlwaysFail ==
    \A i \in 1..Len(calls) :
        calls[i].api \in {"accountLogin", "accountCreate"} => calls[i].ret # 0

\* C3 (as stated): two calls in a row on an account for which login and
\* create fail return the same error, and the local account record is left
\* as it was before the first call.
C3_RecordUntouched ==
    (Len(authReturns) = 2 /\ LoginAndCreateAlwaysFail) =>
        /\ authReturns[1] = authReturns[2]
        /\ accountRecord = recordBefore[1]

\* C3 (amended): two calls in a row on an account for which login and create
\* fail return the same error (the create-failed code) both times; the
\* local account record is as it was before the first call unless one of
\* the best-effort deletes succeeded, and then the record is gone.
C3_SameErrorRecordDeletedAtMost ==
    (Len(authReturns) = 2 /\ LoginAndCreateAlwaysFail) =>
        /\ authReturns[1] = authReturns[2]
        /\ authReturns[1] = -30
        /\ IF Succeeded("accountDelete")
             THEN accountRecord = "absent"
             ELSE accountRecord = recordBefore[1]

\* C3 witness: both calls failed and the record that existed is gone.
C3_Witness ==
    /\ Len(authReturns) = 2
    /\ LoginAndCreateAlwaysFail
    /\ recordBefore[1] = "present"
    /\ accountRecord = "absent"

StartupApis == {"apiStartup", "apiStartup_Advanced"}
AccountApis == {"accountLogin", "accountCreate", "accountDelete"}
CryptoStartApis == {"simpleSearchForRecipientByName", "encryptStart", "decryptStart"}
SucceededBefore(apis, i) ==
    \E j \in 1..(i - 1) : calls[j].api \in apis /\ calls[j].ret = INVOKE_STATUS_TRUE

\* C4: each stage is entered only if every earlier stage succeeded:
\* serverConnect only after a startup call returned INVOKE_STATUS_TRUE,
\* account calls only after serverConnect returned INVOKE_STATUS_TRUE, and
\* search, encryptStart and decryptStart only after
\* authenticateWithHelixNetwork returned 0.
C4_StagesInOrder ==
    \A i \in 1..Len(calls) :
        /\ calls[i].api = "serverConnect" => SucceededBefore(StartupApis, i)
        /\ calls[i].api \in AccountApis => SucceededBefore({"serverConnect"}, i)
        /\ calls[i].api \in CryptoStartApis =>
               /\ authReturns = << 0 >>
               /\ modulePrepStatus = << 0 >>

\* C4 witness: a run that got as far as starting a decryption.
C4_Witness == Called("decryptStart") /\ Called("serverConnect") /\ Called("accountLogin")

\* C5: apiShutdown is the last Helix call of a run: it is called at most
\* once, after serverDisconnect, and no Helix call follows it.
C5_ShutdownLast ==
    \A i \in 1..Len(calls) :
        calls[i].api = "apiShutdown" =>
            /\ i = Len(calls)
            /\ \E j \in 1..(i - 1) : calls[j].api = "serverDisconnect"
            /\ \A j \in 1..Len(calls) : calls[j].api = "apiShutdown" => j = i

\* C5 witness: a run that ended with the shutdown.
C5_Witness == pc = "terminated" /\ Called("apiShutdown")

\* C6: every run in which the startup succeeded goes through the teardown
\* before the process ends: apiShutdown is called, and serverDisconnect is
\* called if serverConnect had succeeded.
C6_OrderlyTeardown ==
    (pc = "terminated" /\ (\E a \in StartupApis : Succeeded(a))) =>
        /\ Called("apiShutdown")
        /\ Succeeded("serverConnect") => Called("serverDisconnect")

ConcludeApis == {"encryptConclude", "decryptPayloadSerializedRelease"}
GetOutputApis == {"encryptGetOutputData", "decryptGetOutputData"}

\* C7: for every promise whose engine-owned result the demo fetched, the
\* matching conclude/release call has been made exactly once by the time of
\* the shutdown, and no call uses a promise after its conclude.
C7_ConcludedExactlyOnce ==
    \A i \in 1..Len(calls) :
        calls[i].api = "apiShutdown" =>
            \A g \in 1..(i - 1) :
                (calls[g].api \in GetOutputApis /\ calls[g].ret = INVOKE_STATUS_TRUE) =>
                    /\ Cardinality({ c \in 1..(i - 1) : /\ calls[c].api \in ConcludeApis
                                                        /\ calls[c].id = calls[g].id }) = 1
                    /\ \A c \in 1..(i - 1) :
                           (calls[c].api \in ConcludeApis /\ calls[c].id = calls[g].id) =>
                               \A u \in (c + 1)..Len(calls) : calls[u].id # calls[g].id

\* C8: when serverDisconnect is called no promise the demo issued is pending.
C8_NoDisconnectWhilePending ==
    (Len(calls) > 0 /\ calls[Len(calls)].api = "serverDisconnect") =>
        \A p \in PROMISE_ID : ~IsPending(promiseStatus[p])

\* C8 witness: the disconnect of a run that issued all three promises.
C8_Witness ==
    /\ Len(calls) > 0 /\ calls[Len(calls)].api = "serverDisconnect"
    /\ \A p \in PROMISE_ID : promiseStatus[p] # NotIssued

\* C9: a result buffer is read only when the status of its promise includes
\* DataAvailable and excludes ResultError.
C9_ReadOnlyWhenDataAvailable ==
    \A i \in 1..Len(calls) :
        calls[i].api \in GetOutputApis =>
            /\ HasFlag(calls[i].st, PROMISE_DATA_AVAILABLE)
            /\ ~HasFlag(calls[i].st, PROMISE_RESULT_ERROR)

\* C9 witness: both result buffers have been read.
C9_Witness == Called("encryptGetOutputData") /\ Called("decryptGetOutputData")

StageErrors ==
    {ERROR_HELIX_ENCRYPT_RECIPIENT, ERROR_HELIX_ENCRYPT_EMPTY, ERROR_HELIX_DECRYPT_STATUS}

\* C10: a promise whose status is Complete+DataAvailable with ResultError
\* clear is treated as a success: the demo does not end with a recipient,
\* encrypt or decrypt error on reading that status.
C10_CompleteDataAvailableIsSuccess ==
    \A i \in 1..Len(calls) :
        ( /\ calls[i].api = "waitEventStatus"
          /\ HasFlag(calls[i].ret, PROMISE_COMPLETE)
          /\ HasFlag(calls[i].ret, PROMISE_DATA_AVAILABLE)
          /\ ~HasFlag(calls[i].ret, PROMISE_RESULT_ERROR) ) =>
            ~( /\ i = Len(calls)
               /\ pc = "terminated"
               /\ exitStatus[1] \in StageErrors )

StatusReadOf(p, i) == calls[i].api = "waitEventStatus" /\ calls[i].id = p

\* C11: the demo waits for the search promise before it reads its status,
\* so recipient-not-found is never reported for a search that is still in
\* progress and may yet reach DataAvailable within the timeout.
C11_WaitsForSearchPromise ==
    \A i \in 1..Len(calls) :
        StatusReadOf("search", i) =>
            /\ \E j \in 1..(i - 1) : calls[j].api = "waitEvent" /\ calls[j].id = "search"
            /\ ~IsPending(calls[i].ret)

NoOutputFileWritten == \A f \in OutNames : filesWritten[f] = <<>>

\* C12: encryptStart is called only after the search promise was read with
\* status DataAvailable; on any other status the demo ends with
\* ERROR_HELIX_ENCRYPT_RECIPIENT, having started no encryption or
\* decryption and written no output file.
C12_EncryptOnlyForResolvedRecipient ==
    /\ \A i \in 1..Len(calls) :
           calls[i].api = "encryptStart" =>
               \E j \in 1..(i - 1) :
                   StatusReadOf("search", j) /\ calls[j].ret = PROMISE_DATA_AVAILABLE
    /\ \A i \in 1..Len(calls) :
           (StatusReadOf("search", i) /\ calls[i].ret # PROMISE_DATA_AVAILABLE) =>
               /\ pc = "terminated"
               /\ exitStatus = << ERROR_HELIX_ENCRYPT_RECIPIENT >>
               /\ ~Called("encryptStart")
               /\ ~Called("decryptStart")
               /\ NoOutputFileWritten

\* C12 witness: the search ended with an error and the demo has ended.
C12_Witness ==
    /\ pc = "terminated"
    /\ \E i \in 1..Len(calls) :
           StatusReadOf("search", i) /\ HasFlag(calls[i].ret, PROMISE_RESULT_ERROR)

\* C13: when the decrypt promise does not reach DataAvailable the demo ends
\* with ERROR_HELIX_DECRYPT_STATUS, never reads the output buffer and writes
\* no '-decrypted' file.
C13_DecryptStatusError ==
    \A i \in 1..Len(calls) :
        (StatusReadOf("decrypt", i) /\ ~HasFlag(calls[i].ret, PROMISE_DATA_AVAILABLE)) =>
            /\ pc = "terminated"
            /\ exitStatus = << ERROR_HELIX_DECRYPT_STATUS >>
            /\ ~Called("decryptGetOutputData")
            /\ filesWritten["decrypted"] = <<>>

\* C13 witness: a decryption that ended in ResultError.
C13_Witness ==
    /\ pc = "terminated"
    /\ \E i \in 1..Len(calls) :
           StatusReadOf("decrypt", i) /\ HasFlag(calls[i].ret, PROMISE_RESULT_ERROR)

\* C14: when the decrypt promise reaches DataAvailable but the output
\* fetched is empty (no buffer or length zero), the run ends with
\* ERROR_HELIX_DECRYPT_EMPTY, not with status 0 (runs that end on an output
\* file error are left aside: the file system, not the decryption, failed).
OutputFileError == exitStatus \in { << ERROR_OUTPUT_NAME >>, << ERROR_OUTPUT_WRITE >> }
C14_DecryptEmptyIsError ==
    ( /\ pc = "terminated"
      /\ Called("decryptGetOutputData")
      /\ decryptedBytes = 0
      /\ ~OutputFileError ) =>
        exitStatus = << ERROR_HELIX_DECRYPT_EMPTY >>
\* The start call of the encryption or decryption behind promise p.
IsStartOf(p, i) == calls[i].api \in {"encryptStart", "decryptStart"} /\ calls[i].id = p

\* The caller-owned buffer handed to the operation behind promise p: the
\* file buffer for the encryption and for a decryption without -e, the
\* ciphertext of the preceding encryption otherwise.
HandedBuffer(p) ==
    IF p = "encrypt" \/ ~args.encrypt
      THEN [name |-> "dataFromFile", live |-> dataFromFile = "allocated",
            bytes |-> SubSeq(fileData, 1, bytesFromFile)]
      ELSE [name |-> "encrypted", live |-> TRUE,
            bytes |-> SubSeq(encrypted.data, 1, encryptedBytes)]

\* C15: while the promise of an encryption or decryption is not yet
\* terminal, the caller-owned buffer handed to its start call has not been
\* freed and still holds the bytes it held at the start call.
C15_CallerBuffersStayValid ==
    \A p \in {"encrypt", "decrypt"} :
        IsPending(promiseStatus[p]) =>
            \E i \in 1..Len(calls) :
                /\ IsStartOf(p, i)
                /\ HandedBuffer(p).live
                /\ \A k \in 1..Len(frees) : frees[k] # HandedBuffer(p).name
                /\ HandedBuffer(p).bytes = calls[i].arg

\* C15 witness: a decryption of the file buffer is in progress.
C15_Witness ==
    /\ IsPending(promiseStatus["decrypt"])
    /\ ~args.encrypt
    /\ fileData # <<>>
    /\ Called("decryptStart")

\* C16: free() is only ever called on the input file buffer, never on the
\* encrypted or the decrypted result buffer, and at most once.
C16_FreesOnlyInputBufferOnce ==
    /\ \A k \in 1..Len(frees) : frees[k] = "dataFromFile"
    /\ Len(frees) <= 1

\* C16 witness: the input buffer has been freed while both result buffers
\* exist.
C16_Witness ==
    /\ frees = << "dataFromFile" >>
    /\ encrypted.ptr
    /\ decrypted.ptr

\* C17: the startup call is reached only for an integer given as --port
\* that lies strictly between 0 and 65535 and for a server name that is
\* non-empty and shorter than 128 characters, and the port passed to the
\* startup call is the integer that was given.
C17_StartupOnlyForValidPort ==
    \A i \in 1..Len(calls) :
        calls[i].api \in StartupApis =>
            /\ args.port > 0 /\ args.port < 65535
            /\ args.server > 0 /\ args.server < 128
            /\ calls[i].arg = << args.server, args.port >>

\* The name part of a path: what follows its last separator, or the whole
\* path when it has none.
NamePart(path) ==
    CHOOSE s \in { SubSeq(path, k, Len(path)) : k \in 1..(Len(path) + 1) } :
        /\ \A j \in 1..Len(s) : s[j] # "/"
        /\ Len(s) = Len(path) \/ path[Len(path) - Len(s)] = "/"

\* C18: without -o, the output paths are the name part of the input path
\* followed by '-encrypted' and by '-decrypted'.
C18_OutputNamedAfterInput ==
    (args.out = <<>> /\ pc = "read") =>
        /\ outFileEncrypted = NamePart(args.inFile) \o << "-encrypted" >>
        /\ outFileDecrypted = NamePart(args.inFile) \o << "-decrypted" >>

\* A run with both -e and -d that has ended with status 0 on a non-empty
\* input.
RoundTripDone ==
    /\ pc = "terminated"
    /\ exitStatus = << 0 >>
    /\ args.encrypt /\ args.decrypt
    /\ fileData # <<>>

\* C19: a run with -e and -d on a non-empty input that ends with status 0
\* has written a '-decrypted' output equal, byte for byte and in length, to
\* the input.
C19_RoundTrip ==
    RoundTripDone => filesWritten["decrypted"] = << fileData >>

\* C19 witness: such a run, after an encryption that returned a ciphertext
\* and a decryption started on it.
C19_Witness ==
    /\ RoundTripDone
    /\ encryptedBytes > 0
    /\ Called("decryptGetOutputData")
    /\ filesWritten["decrypted"] = << fileData >>

\* Failures of the Helix stages, read off the call log.
StartupFailed == \E i \in 1..Len(calls) : calls[i].api \in StartupApis /\ calls[i].ret # INVOKE_STATUS_TRUE
ConnectFailed == \E i \in 1..Len(calls) : calls[i].api = "serverConnect" /\ calls[i].ret # INVOKE_STATUS_TRUE
AuthenticationFailed == authReturns # <<>> /\ authReturns[1] # 0
RecipientFailed == \E i \in 1..Len(calls) : StatusReadOf("search", i) /\ ~HasFlag(calls[i].ret, PROMISE_DATA_AVAILABLE)
CryptoStatusFailed(p) == \E i \in 1..Len(calls) : StatusReadOf(p, i) /\ ~HasFlag(calls[i].ret, PROMISE_DATA_AVAILABLE)
CryptoOutputEmpty(api) == \E i \in 1..Len(calls) : calls[i].api = api /\ calls[i].arg = <<>>
SizeMismatch == args.encrypt /\ Called("decryptGetOutputData") /\ decryptedBytes # bytesFromFile
CryptoFailed ==
    \/ CryptoStatusFailed("encrypt") \/ CryptoStatusFailed("decrypt")
    \/ CryptoOutputEmpty("encryptGetOutputData") \/ CryptoOutputEmpty("decryptGetOutputData")
    \/ SizeMismatch
CryptoErrors == {ERROR_HELIX_ENCRYPT_EMPTY, ERROR_HELIX_DECRYPT_STATUS, ERROR_HELIX_DECRYPT_EMPTY,
                 ERROR_HELIX_DECRYPT_SIZE}

\* C20: a run in which a Helix stage failed ends with a non-zero status of
\* that stage's own: ERROR_HELIX_MODULE for the startup, ERROR_HELIX_SERVER
\* for the connection, -1 for the authentication,
\* ERROR_HELIX_ENCRYPT_RECIPIENT for the recipient, one of the crypto codes
\* for an encryption or decryption; status 0 ends only runs without failure
\* (runs that end on a file error are left aside).
C20_DistinctStatusPerStage ==
    (pc = "terminated" /\ ~OutputFileError) =>
        /\ StartupFailed => exitStatus = << ERROR_HELIX_MODULE >>
        /\ ConnectFailed => exitStatus = << ERROR_HELIX_SERVER >>
        /\ AuthenticationFailed => exitStatus = << -1 >>
        /\ RecipientFailed => exitStatus = << ERROR_HELIX_ENCRYPT_RECIPIENT >>
        /\ CryptoFailed => exitStatus[1] \in CryptoErrors
        /\ exitStatus = << 0 >> =>
               ~(StartupFailed \/ ConnectFailed \/ AuthenticationFailed \/ RecipientFailed \/ CryptoFailed)

\* A run with -e and -d in which the decrypted length differs from the
\* length of the input, and whose '-decrypted' file could be written.
SizeMismatchRunDone ==
    /\ pc = "terminated"
    /\ SizeMismatch
    /\ ~OutputFileError

C22_AuthFailuresDistinguishable ==
    pc = "terminated" =>
        /\ (FirstLoginFailed /\ CreateFailed) => exitStatus = << ERROR_HELIX_ACCOUNT_CREATE >>
        /\ (FirstLoginFailed /\ CreateOk /\ SecondLoginFailed) =>
               exitStatus = << ERROR_HELIX_ACCOUNT_LOGIN >>

\* C23: every run ends.
C23_Terminates == <>(pc = "terminated")

\* C23 witness: a run has ended after waiting, without timeout, on both an
\* encrypt and a decrypt promise.
C23_Witness ==
    /\ pc = "terminated"
    /\ \A p \in {"encrypt", "decrypt"} :
           \E i \in 1..Len(calls) : calls[i].api = "waitEvent" /\ calls[i].id = p

PendingPromises == { p \in PROMISE_ID : IsPending(promiseStatus[p]) }

\* C24: at most one promise is pending at any time: the encryption is
\* started only when the search promise is no longer pending, the
\* decryption only when the encrypt promise, if issued, is terminal.
C24_OnePendingPromise ==
    /\ Cardinality(PendingPromises) <= 1
    /\ \A i \in 1..Len(calls) :
           calls[i].api = "encryptStart" => ~IsPending(calls[i].st)
    /\ promiseStatus["encrypt"] # NotIssued =>
           ~IsPending(promiseStatus["search"]) /\ promiseStatus["search"] # NotIssued
    /\ promiseStatus["decrypt"] # NotIssued =>
           (promiseStatus["encrypt"] = NotIssued \/ IsTerminal(promiseStatus["encrypt"]))

\* C24 witness: the decryption is in progress after a search and an
\* encryption that have both ended.
C24_Witness ==
    /\ IsPending(promiseStatus["decrypt"])
    /\ IsTerminal(promiseStatus["search"])
    /\ IsTerminal(promiseStatus["encrypt"])

====
